---------------------------- MODULE Spec2Model ----------------------------
(***************************************************************************)
(* Presence session tracker of DiscordOnlineTimeTrackerBot:                *)
(* PresenceTracker (src/tracker.py) over the SQLite session store          *)
(* Database (src/database.py), driven by the gateway handlers of           *)
(* OnlineTrackerBot (src/bot.py).                                          *)
(*                                                                         *)
(* A datetime is an integer number of clock ticks.  A coroutine of the     *)
(* tracker that is suspended at a store call (asyncio.to_thread) is a      *)
(* record of the set tasks; the store statement runs in a worker thread    *)
(* (one step) and the coroutine resumes on the event loop (another step).  *)
(***************************************************************************)
EXTENDS Integers, Sequences, FiniteSets, TLC

VARIABLES
    store,            \* table presence_sessions: row id = index (AUTOINCREMENT)
    active_sessions,  \* PresenceTracker._active_sessions: dict key -> ActiveSession
    now,              \* the wall clock, datetime.now(tz=UTC)
    phase,            \* "constructed" (before setup) or "ready"
    tasks,            \* coroutines suspended at a store call
    last,             \* history: the call that returned last, <<>> while none
    stream            \* history: the consistent event stream handled so far on OneKey

vars == <<store, active_sessions, now, phase, tasks, last, stream>>

-----------------------------------------------------------------------------
(* Bounds *)

MaxTime == 2    \* the clock and the caller's timestamps range over 0..MaxTime
MaxRows == 2    \* rows the store may hold
MaxTasks == 2   \* coroutines in flight at once in the concurrent specification
MaxHours == 2   \* the formatted durations have 0..MaxHours whole hours

Guilds == {1, 2}
Users == {7}
Keys == Guilds \X Users
Times == 0..MaxTime

-----------------------------------------------------------------------------
(* Status values *)

TRACKED_STATUSES == <<"online", "idle", "dnd">>

\* Python's None as a status value (an absent status).
None == "<None>"

\* Python's None as a datetime (an open row's ended_at, an omitted timestamp or
\* now argument) and as the statuses argument of get_total_duration.
NoDatetime == -1
NoStatuses == <<"<omitted>">>

\* The raw status values the gateway delivers in this model.
StatusInputs == {"online", "IDLE", "streaming", None}

\* str.lower() on the raw values above.
Lower(s) == IF s = "IDLE" THEN "idle" ELSE s

Range(seq) == {seq[i] : i \in DOMAIN seq}

TracksAllButOffline(status) == status # "offline"

is_tracked(status) == status \in Range(TRACKED_STATUSES)

normalize_status(status) ==
    IF status = None THEN "offline" ELSE Lower(status)

\* tuple(x for x in seq if is_tracked(x))
RECURSIVE FilterTracked(_)
FilterTracked(seq) ==
    IF seq = <<>> THEN <<>>
    ELSE IF is_tracked(Head(seq))
         THEN <<Head(seq)>> \o FilterTracked(Tail(seq))
         ELSE FilterTracked(Tail(seq))

NormalizeWithoutFallback(statuses) ==
    IF statuses = NoStatuses THEN TRACKED_STATUSES
    ELSE FilterTracked([i \in DOMAIN statuses |-> normalize_status(statuses[i])])

normalize_statuses(statuses) ==
    IF statuses = NoStatuses THEN TRACKED_STATUSES
    ELSE LET normalized == [i \in DOMAIN statuses |-> normalize_status(statuses[i])]
             kept == FilterTracked(normalized)
         IN  IF kept = <<>> THEN TRACKED_STATUSES ELSE kept

-----------------------------------------------------------------------------
(* Session store (src/database.py) *)

\* The TEXT columns started_at / ended_at hold datetime.isoformat(): modelled
\* as the pair (date part, time-of-day part) of a two-tick day.
isoformat(t) == <<t \div 2, t % 2>>
fromisoformat(text) == 2 * text[1] + text[2]

\* SQL NULL in ended_at.
NULL == <<>>

insert_session_sync(rows, guild_id, user_id, status, started_at) ==
    Append(rows, [guild_id |-> guild_id, user_id |-> user_id, status |-> status,
                  started_at |-> isoformat(started_at), ended_at |-> NULL])

CompleteWithoutWhere(rows, row_id, ended_at) ==
    [i \in DOMAIN rows |-> [rows[i] EXCEPT !.ended_at = isoformat(ended_at)]]

CompleteUsersOpenRows(rows, row_id, ended_at) ==
    [i \in DOMAIN rows |->
        IF rows[i].user_id = rows[row_id].user_id /\ rows[i].ended_at = NULL
        THEN [rows[i] EXCEPT !.ended_at = isoformat(ended_at)]
        ELSE rows[i]]

complete_session_sync(rows, row_id, ended_at) ==
    [i \in DOMAIN rows |->
        IF i = row_id THEN [rows[i] EXCEPT !.ended_at = isoformat(ended_at)]
        ELSE rows[i]]

CloseEveryRow(rows, closed_at) ==
    [i \in DOMAIN rows |-> [rows[i] EXCEPT !.ended_at = isoformat(closed_at)]]

close_open_sessions_sync(rows, closed_at) ==
    [i \in DOMAIN rows |->
        IF rows[i].ended_at = NULL
        THEN [rows[i] EXCEPT !.ended_at = isoformat(closed_at)]
        ELSE rows[i]]

\* Lexicographic order of the stored text, as ORDER BY started_at ASC compares it.
TextLeq(a, b) == a[1] < b[1] \/ (a[1] = b[1] /\ a[2] <= b[2])

\* The ids of the rows WHERE guild_id = ? AND user_id = ? AND status IN (...).
SelectIdsAnyStatus(rows, guild_id, user_id, statuses) ==
    {i \in DOMAIN rows : rows[i].guild_id = guild_id /\ rows[i].user_id = user_id}

SelectIds(rows, guild_id, user_id, statuses) ==
    {i \in DOMAIN rows : /\ rows[i].guild_id = guild_id
                         /\ rows[i].user_id = user_id
                         /\ rows[i].status \in Range(statuses)}

\* ORDER BY started_at ASC (rows of equal text in id order).
RECURSIVE OrderByStartedAt(_, _)
OrderByStartedAt(rows, ids) ==
    IF ids = {} THEN <<>>
    ELSE LET first == CHOOSE i \in ids : \A j \in ids :
                          \/ i = j
                          \/ ~TextLeq(rows[j].started_at, rows[i].started_at)
                          \/ (rows[j].started_at = rows[i].started_at /\ i < j)
         IN  <<first>> \o OrderByStartedAt(rows, ids \ {first})

\* One PresenceSession per fetched row, the datetimes parsed back.
PresenceSession(rows, i) ==
    [row_id |-> i, guild_id |-> rows[i].guild_id, user_id |-> rows[i].user_id,
     status |-> rows[i].status,
     started_at |-> fromisoformat(rows[i].started_at),
     ended_at |-> IF rows[i].ended_at = NULL THEN NoDatetime
                  ELSE fromisoformat(rows[i].ended_at)]

fetch_sessions_sync(rows, guild_id, user_id, statuses) ==
    LET ordered == OrderByStartedAt(rows, SelectIds(rows, guild_id, user_id, statuses))
    IN  [n \in DOMAIN ordered |-> PresenceSession(rows, ordered[n])]

-----------------------------------------------------------------------------
(* Presence tracker (src/tracker.py) *)

ActiveSession(row_id, started_at, status) ==
    [row_id |-> row_id, started_at |-> started_at, status |-> status]

\* dict.pop(key, None) and dict[key] = session
MapPopKeepsKey(m, key) == m

MapPop(m, key) == [k \in DOMAIN m \ {key} |-> m[k]]
MapSet(m, key, session) ==
    [k \in DOMAIN m \cup {key} |-> IF k = key THEN session ELSE m[k]]

RECURSIVE SumDurations(_, _)
SumDurations(sessions, now_) ==
    IF sessions = <<>> THEN 0
    ELSE LET session == Head(sessions)
             end == IF session.ended_at = NoDatetime THEN now_ ELSE session.ended_at
         IN  (end - session.started_at) + SumDurations(Tail(sessions), now_)

\* The body of get_total_duration over a store rows, a map sessions and a clock
\* reading clock.  statuses is NoStatuses and now_arg NoDatetime when omitted.
total_duration(rows, sessions, clock, guild_id, user_id, statuses, now_arg) ==
    LET now_ == IF now_arg = NoDatetime THEN clock ELSE now_arg
        statuses_tuple == normalize_statuses(statuses)
        fetched == fetch_sessions_sync(rows, guild_id, user_id, statuses_tuple)
        total == SumDurations(fetched, now_)
        key == <<guild_id, user_id>>
    IN  IF key \in DOMAIN sessions
           /\ sessions[key].status \in Range(statuses_tuple)
        THEN total + (now_ - sessions[key].started_at)
        ELSE total

\* get_total_duration, run with no other coroutine in between: a read of the
\* store and of the map.
get_total_duration(guild_id, user_id, statuses, now_arg) ==
    total_duration(store, active_sessions, now, guild_id, user_id, statuses, now_arg)

-----------------------------------------------------------------------------
(* Duration formatter (PresenceTracker.format_timedelta) *)

\* " ".join(parts)
RECURSIVE Join(_)
Join(parts) ==
    IF parts = <<>> THEN ""
    ELSE IF Len(parts) = 1 THEN Head(parts)
    ELSE Head(parts) \o " " \o Join(Tail(parts))

FormatWithoutZeroFallback(delta) ==
    LET hours == delta \div 3600
        remainder == delta % 3600
        minutes == remainder \div 60
        seconds == remainder % 60
        with_hours == IF hours # 0 THEN <<ToString(hours) \o "h">> ELSE <<>>
        with_minutes == IF minutes # 0
                        THEN Append(with_hours, ToString(minutes) \o "m")
                        ELSE with_hours
        parts == IF seconds # 0
                 THEN Append(with_minutes, ToString(seconds) \o "s")
                 ELSE with_minutes
    IN  Join(parts)

\* delta is int(delta.total_seconds()), a non-negative number of seconds.
format_timedelta(delta) ==
    LET total_seconds == delta
        hours == total_seconds \div 3600
        remainder == total_seconds % 3600
        minutes == remainder \div 60
        seconds == remainder % 60
        with_hours == IF hours # 0 THEN <<ToString(hours) \o "h">> ELSE <<>>
        with_minutes == IF minutes # 0
                        THEN Append(with_hours, ToString(minutes) \o "m")
                        ELSE with_hours
        parts == IF seconds # 0 \/ with_minutes = <<>>
                 THEN Append(with_minutes, ToString(seconds) \o "s")
                 ELSE with_minutes
    IN  Join(parts)

-----------------------------------------------------------------------------
(* Coroutines of the tracker *)

EmptyMap == [k \in {} |-> 0]

\* The frame of a coroutine suspended at "await self._database.<call>": pc names
\* the source line of the await, done tells whether the worker thread has run
\* the statement, row_id is the row being closed (kept, as history, until the
\* insert that follows the close has run; 0 when no close went before) or the
\* lastrowid returned.
\* copy tells apart coroutines whose frames are equal.
Frame(op, guild_id, user_id, after, timestamp, pc, row_id, done, copy) ==
    [op |-> op, guild_id |-> guild_id, user_id |-> user_id,
     after |-> after, timestamp |-> timestamp, pc |-> pc, row_id |-> row_id,
     done |-> done, copy |-> copy]

\* t with its pc, row_id and done set, as a member to add to the set others.
Moved(others, t, pc, row_id, done) ==
    LET copy == CHOOSE c \in 0..Cardinality(others) :
                    /\ Frame(t.op, t.guild_id, t.user_id, t.after, t.timestamp,
                             pc, row_id, done, c) \notin others
                    /\ \A d \in 0..(c - 1) :
                          Frame(t.op, t.guild_id, t.user_id, t.after, t.timestamp,
                                pc, row_id, done, d) \in others
    IN  Frame(t.op, t.guild_id, t.user_id, t.after, t.timestamp, pc, row_id, done, copy)

\* A coroutine that suspends at pc, as a member to add to tasks.
Task(op, guild_id, user_id, after, timestamp, pc, row_id) ==
    Moved(tasks, Frame(op, guild_id, user_id, after, timestamp, pc, row_id, FALSE, 0),
          pc, row_id, FALSE)

InsertPcs == {"insert_54", "insert_87", "insert_91"}
CompletePcs == {"complete_82", "complete_95"}

\* Rows the coroutines in flight have still to insert.
PendingInserts ==
    Cardinality({t \in tasks : \/ t.pc \in InsertPcs /\ ~t.done
                               \/ t.pc = "complete_82" /\ is_tracked(t.after)})

RoomForInsert == Len(store) + PendingInserts < MaxRows

\* What the history keeps of a call that returned: the operation, the key, the
\* normalized after (or bootstrap) status, and whether it repeated the call
\* before it: that call returned with the same operation, key and status, only
\* clock ticks lie in between, and this call returned without suspending.
Returned(op, guild_id, user_id, after, repeated) ==
    <<op, guild_id, user_id, after, repeated>>

Repeats(op, guild_id, user_id, after) ==
    /\ Len(last) = 5
    /\ last[1] = op /\ last[2] = guild_id /\ last[3] = user_id /\ last[4] = after

OpenIds(rows) == {i \in DOMAIN rows : rows[i].ended_at = NULL}

\* PresenceTracker.setup: close_open_sessions(now) on the rows a previous
\* process left open.
setup ==
    /\ phase = "constructed"
    /\ store' = close_open_sessions_sync(store, now)
    /\ phase' = "ready"
    /\ last' = <<"setup", now, OpenIds(store)>>
    /\ UNCHANGED <<active_sessions, now, tasks, stream>>

\* The process stops and a new one constructs a tracker over the same database
\* file: the in-memory map and every coroutine are lost.
restart ==
    /\ phase = "ready"
    /\ phase' = "constructed"
    /\ active_sessions' = EmptyMap
    /\ tasks' = {}
    /\ last' = <<>>
    /\ UNCHANGED <<store, now, stream>>

Tick ==
    /\ now < MaxTime
    /\ now' = now + 1
    /\ UNCHANGED <<store, active_sessions, phase, tasks, last, stream>>

\* The condition of line 81.
ClosesOnlyWhenUntracked(before_tracked, after_tracked, after, has_active, active_status) ==
    before_tracked /\ has_active /\ ~after_tracked

ClosesWhenStatusKept(before_tracked, after_tracked, after, has_active, active_status) ==
    before_tracked /\ has_active /\ (~after_tracked \/ after = active_status)

ClosesFirst(before_tracked, after_tracked, after, has_active, active_status) ==
    before_tracked /\ has_active /\ (~after_tracked \/ after # active_status)

\* The condition of line 89, evaluated when an active session is held.
StartsNewAlways(active_status, after) == TRUE
StartsNewNever(active_status, after) == FALSE

StartsNew(active_status, after) == active_status # after

\* PresenceTracker.handle_presence_update up to its first await (lines 72-95).
\* limit is the number of coroutines the event loop may hold at once.
handle_presence_update(guild_id, user_id, before_status, after_status, timestamp, limit) ==
    /\ phase = "ready"
    /\ Cardinality(tasks) < limit
    /\ LET ts == IF timestamp = NoDatetime THEN now ELSE timestamp
           before == normalize_status(before_status)
           after == normalize_status(after_status)
           key == <<guild_id, user_id>>
           has_active == key \in DOMAIN active_sessions
           active_status == IF has_active THEN active_sessions[key].status ELSE None
           before_tracked == is_tracked(before)
           after_tracked == is_tracked(after)
           call(pc, row_id) == Task("handle", guild_id, user_id, after, ts, pc, row_id)
           returns == /\ last' = Returned("handle", guild_id, user_id, after,
                                          Repeats("handle", guild_id, user_id, after))
                      /\ UNCHANGED <<active_sessions, tasks>>
       IN  IF ClosesFirst(before_tracked, after_tracked, after, has_active, active_status)
           THEN \* line 82: _close_session pops the key, then awaits complete_session
                /\ after_tracked => RoomForInsert
                /\ active_sessions' = MapPop(active_sessions, key)
                /\ tasks' = tasks \cup {call("complete_82", active_sessions[key].row_id)}
                /\ last' = <<>>
           ELSE IF after_tracked
                THEN IF ~has_active
                     THEN \* line 87
                          /\ RoomForInsert
                          /\ tasks' = tasks \cup {call("insert_87", 0)}
                          /\ last' = <<>>
                          /\ UNCHANGED active_sessions
                     ELSE IF StartsNew(active_status, after)
                          THEN \* line 91
                               /\ RoomForInsert
                               /\ tasks' = tasks \cup {call("insert_91", 0)}
                               /\ last' = <<>>
                               /\ UNCHANGED active_sessions
                          ELSE returns
                ELSE IF has_active
                     THEN \* line 95: _close_session pops the key, then awaits
                          /\ active_sessions' = MapPop(active_sessions, key)
                          /\ tasks' = tasks \cup {call("complete_95", active_sessions[key].row_id)}
                          /\ last' = <<>>
                     ELSE returns
    /\ UNCHANGED <<store, now, phase>>

\* The early returns of bootstrap_member (lines 48-52).
ReturnsWhenUntrackedOnly(tracked, has_active) == ~tracked

ReturnsEarly(tracked, has_active) == ~tracked \/ has_active

\* PresenceTracker.bootstrap_member up to its await (lines 47-54).
bootstrap_member(guild_id, user_id, status, limit) ==
    /\ phase = "ready"
    /\ Cardinality(tasks) < limit
    /\ LET normalized == normalize_status(status)
           key == <<guild_id, user_id>>
       IN  IF ReturnsEarly(is_tracked(normalized), key \in DOMAIN active_sessions)
           THEN /\ last' = Returned("bootstrap", guild_id, user_id, normalized,
                                 Repeats("bootstrap", guild_id, user_id, normalized))
                /\ UNCHANGED tasks
           ELSE /\ RoomForInsert
                /\ tasks' = tasks \cup {Task("bootstrap", guild_id, user_id,
                                        normalized, now, "insert_54", 0)}
                /\ last' = <<>>
    /\ UNCHANGED <<store, active_sessions, now, phase>>

\* The worker thread runs Database._complete_session_sync for a suspended close.
complete_session_thread(t) ==
    /\ t \in tasks /\ t.pc \in CompletePcs /\ ~t.done
    /\ store' = complete_session_sync(store, t.row_id, t.timestamp)
    /\ tasks' = (tasks \ {t}) \cup {Moved(tasks \ {t}, t, t.pc, t.row_id, TRUE)}
    /\ UNCHANGED <<active_sessions, now, phase, last, stream>>

\* The worker thread runs Database._insert_session_sync; lastrowid is the new id.
insert_session_thread(t) ==
    /\ t \in tasks /\ t.pc \in InsertPcs /\ ~t.done
    /\ store' = insert_session_sync(store, t.guild_id, t.user_id, t.after, t.timestamp)
    /\ tasks' = (tasks \ {t}) \cup {Moved(tasks \ {t}, t, t.pc, Len(store) + 1, TRUE)}
    /\ UNCHANGED <<active_sessions, now, phase, last, stream>>

\* The coroutine resumes after "await self._close_session(key, timestamp)":
\* line 83 sets active = None, so a tracked after goes on to line 87.
resume_after_close(t) ==
    /\ t \in tasks /\ t.pc \in CompletePcs /\ t.done
    /\ IF t.pc = "complete_82" /\ is_tracked(t.after)
       THEN /\ tasks' = (tasks \ {t}) \cup {Moved(tasks \ {t}, t, "insert_87", t.row_id, FALSE)}
            /\ UNCHANGED last
       ELSE /\ tasks' = tasks \ {t}
            /\ last' = Returned(t.op, t.guild_id, t.user_id, t.after, FALSE)
    /\ UNCHANGED <<store, active_sessions, now, phase, stream>>

\* The coroutine resumes after insert_session and records the ActiveSession
\* (lines 60, 88, 92).
resume_after_insert(t) ==
    /\ t \in tasks /\ t.pc \in InsertPcs /\ t.done
    /\ active_sessions' = MapSet(active_sessions, <<t.guild_id, t.user_id>>,
                                 ActiveSession(t.row_id, t.timestamp, t.after))
    /\ tasks' = tasks \ {t}
    /\ last' = Returned(t.op, t.guild_id, t.user_id, t.after, FALSE)
    /\ UNCHANGED <<store, now, phase, stream>>

\* The store call of a suspended coroutine fails (store-unavailable): the
\* statement is not applied and the exception ends the coroutine, which
\* catches nothing.
store_unavailable(t) ==
    /\ t \in tasks /\ ~t.done
    /\ tasks' = tasks \ {t}
    /\ last' = <<>>
    /\ UNCHANGED <<store, active_sessions, now, phase, stream>>

-----------------------------------------------------------------------------
(* Specifications *)

\* The key of the specifications that follow a single key.
OneKey == <<1, 7>>

StreamInit == [prev |-> "<unset>", last_ts |-> 0, tracked |-> 0]

Init ==
    /\ store = <<>>
    /\ active_sessions = EmptyMap
    /\ now = 0
    /\ phase = "constructed"
    /\ tasks = {}
    /\ last = <<>>
    /\ stream = StreamInit

TimestampInputs == Times \cup {NoDatetime}

\* One event of a stream on OneKey that is consistent: its before status is
\* the after status of the previous event and its timestamp is not earlier.
\* The history adds the time spent in a tracked status since that event.
stream_event(before_status, after_status, timestamp) ==
    LET ts == IF timestamp = NoDatetime THEN now ELSE timestamp
    IN  /\ stream.prev = "<unset>" \/ normalize_status(before_status) = stream.prev
        /\ ts >= stream.last_ts
        /\ handle_presence_update(OneKey[1], OneKey[2], before_status,
                                  after_status, timestamp, 1)
        /\ stream' = [prev |-> normalize_status(after_status),
                      last_ts |-> ts,
                      tracked |-> IF is_tracked(stream.prev)
                                  THEN stream.tracked + (ts - stream.last_ts)
                                  ELSE stream.tracked]

\* The bot's calls for one key (bot.py passes no timestamp), run one at a time;
\* the store never fails; the process may stop and start again.
Next ==
    \/ setup
    \/ restart
    \/ Tick
    \/ \E b \in StatusInputs, a \in StatusInputs :
          handle_presence_update(OneKey[1], OneKey[2], b, a, NoDatetime, 1) /\ UNCHANGED stream
    \/ \E s \in StatusInputs :
          bootstrap_member(OneKey[1], OneKey[2], s, 1) /\ UNCHANGED stream
    \/ \E t \in tasks : complete_session_thread(t)
    \/ \E t \in tasks : insert_session_thread(t)
    \/ \E t \in tasks : resume_after_close(t)
    \/ \E t \in tasks : resume_after_insert(t)

Spec == Init /\ [][Next]_vars

\* One process lifetime of handle_presence_update calls only, for two keys, run
\* one at a time, with any timestamps the caller supplies.
NextEvents ==
    \/ setup
    \/ Tick
    \/ \E g \in Guilds, u \in Users, b \in StatusInputs, a \in StatusInputs, ts \in TimestampInputs :
          handle_presence_update(g, u, b, a, ts, 1) /\ UNCHANGED stream
    \/ \E t \in tasks : complete_session_thread(t)
    \/ \E t \in tasks : insert_session_thread(t)
    \/ \E t \in tasks : resume_after_close(t)
    \/ \E t \in tasks : resume_after_insert(t)

SpecEvents == Init /\ [][NextEvents]_vars

\* One process lifetime of a consistent event stream on one key, handled one
\* event at a time.
NextStream ==
    \/ setup
    \/ Tick
    \/ \E b \in StatusInputs, a \in StatusInputs, ts \in TimestampInputs :
          stream_event(b, a, ts)
    \/ \E t \in tasks : complete_session_thread(t)
    \/ \E t \in tasks : insert_session_thread(t)
    \/ \E t \in tasks : resume_after_close(t)
    \/ \E t \in tasks : resume_after_insert(t)

SpecStream == Init /\ [][NextStream]_vars

\* The bot's calls for one key, run one at a time over a store whose calls may
\* fail.
NextFail ==
    \/ Next
    \/ \E t \in tasks : store_unavailable(t)

SpecFail == Init /\ [][NextFail]_vars

\* One process lifetime in which the gateway dispatches every event of one key
\* as a task of its own: up to MaxTasks coroutines are in flight, interleaved
\* at their store calls, which may fail.
NextConc ==
    \/ setup
    \/ Tick
    \/ \E b \in StatusInputs, a \in StatusInputs :
          handle_presence_update(OneKey[1], OneKey[2], b, a, NoDatetime, MaxTasks) /\ UNCHANGED stream
    \/ \E s \in StatusInputs :
          bootstrap_member(OneKey[1], OneKey[2], s, MaxTasks) /\ UNCHANGED stream
    \/ \E t \in tasks : complete_session_thread(t)
    \/ \E t \in tasks : insert_session_thread(t)
    \/ \E t \in tasks : resume_after_close(t)
    \/ \E t \in tasks : resume_after_insert(t)
    \/ \E t \in tasks : store_unavailable(t)

SpecConc == Init /\ [][NextConc]_vars

\* No call of the key is in flight.
NoCallOf(guild_id, user_id) ==
    \A t \in tasks : t.guild_id # guild_id \/ t.user_id # user_id

\* The raw status values of the two-guild specification: two tracked ones and
\* an absent one.
PresenceInputs == {"online", "IDLE", None}

\* One process lifetime in which the same user is a member of two guilds: the
\* gateway delivers the user's presence events in guild 1 while the bot takes
\* member snapshots in guild 2 (setup_hook, on_guild_join).  The calls of one
\* key arrive one after the other, those of the two keys interleave at their
\* store calls.
NextKeys ==
    \/ setup
    \/ Tick
    \/ \E b \in PresenceInputs, a \in PresenceInputs :
          /\ NoCallOf(1, 7)
          /\ handle_presence_update(1, 7, b, a, NoDatetime, MaxTasks)
          /\ UNCHANGED stream
    \/ \E s \in PresenceInputs :
          /\ NoCallOf(2, 7)
          /\ bootstrap_member(2, 7, s, MaxTasks)
          /\ UNCHANGED stream
    \/ \E t \in tasks : complete_session_thread(t)
    \/ \E t \in tasks : insert_session_thread(t)
    \/ \E t \in tasks : resume_after_close(t)
    \/ \E t \in tasks : resume_after_insert(t)

SpecKeys == Init /\ [][NextKeys]_vars

\* The durations the formatter is applied to: every combination of an hour
\* count and of minute and second counts that are zero, one-digit or two-digit.
Components == {0, 1, 5, 9, 30, 59}
Durations ==
    {h * 3600 + m * 60 + sec : h \in 0..MaxHours, m \in Components, sec \in Components}

\* A caller (the online command, bot.py line 81) formats a duration; the
\* history keeps the argument and the text returned.
format_timedelta_call(delta) ==
    /\ last' = <<"format_timedelta", delta, format_timedelta(delta)>>
    /\ UNCHANGED <<store, active_sessions, now, phase, tasks, stream>>

NextFormat == \E delta \in Durations : format_timedelta_call(delta)

SpecFormat == Init /\ [][NextFormat]_vars

-----------------------------------------------------------------------------
(* Properties *)

KeyOf(t) == <<t.guild_id, t.user_id>>

OpenRowsOf(rows, key) ==
    {i \in OpenIds(rows) : rows[i].guild_id = key[1] /\ rows[i].user_id = key[2]}

RowsOf(rows, key) ==
    {i \in DOMAIN rows : rows[i].guild_id = key[1] /\ rows[i].user_id = key[2]}

\* No call is in progress.
Quiescent == phase = "ready" /\ tasks = {}

\* The time row i spans when an open row is taken to end at open_end.
Span(rows, i, open_end) ==
    (IF rows[i].ended_at = NULL THEN open_end ELSE fromisoformat(rows[i].ended_at))
        - fromisoformat(rows[i].started_at)

RECURSIVE SumSpans(_, _, _)
SumSpans(rows, ids, open_end) ==
    IF ids = {} THEN 0
    ELSE LET i == CHOOSE j \in ids : TRUE
         IN  Span(rows, i, open_end) + SumSpans(rows, ids \ {i}, open_end)

\* C1: between calls of a sequence of handle_presence_update calls run one at
\* a time, the store holds at most one open row (ended_at NULL) per key.
C1_AtMostOneOpenRowPerKey ==
    Quiescent => \A key \in Keys : Cardinality(OpenRowsOf(store, key)) <= 1

\* C2: for a key whose rows are closed sessions plus one open session, the
\* default get_total_duration at a time now not before the open session's
\* started_at is the closed sessions' time plus now minus that started_at: the
\* open session is counted once.
C2_OpenSessionCountedOnce ==
    \A key \in Keys, n \in Times :
        (/\ Quiescent
         /\ Cardinality(OpenRowsOf(store, key)) = 1
         /\ \A o \in OpenRowsOf(store, key) : fromisoformat(store[o].started_at) <= n)
            => get_total_duration(key[1], key[2], NoStatuses, n)
                   = SumSpans(store, RowsOf(store, key), n)

\* C3: two calls for the same key are never in flight together past their
\* first access to the active map.
C3_SameKeyCallsDoNotInterleave ==
    \A t1 \in tasks, t2 \in tasks : t1 # t2 => KeyOf(t1) # KeyOf(t2)

\* C4: when a store call fails, the active map is as it was before the call:
\* a failed close leaves the key's ActiveSession in the map, a failed insert
\* leaves the map unchanged.
C4_FailedStoreCallLeavesMap ==
    [][\A t \in tasks :
          store_unavailable(t) =>
              IF t.pc \in CompletePcs
              THEN /\ KeyOf(t) \in DOMAIN active_sessions'
                   /\ active_sessions'[KeyOf(t)].row_id = t.row_id
              ELSE active_sessions' = active_sessions]_vars

\* C5: setup() at time S leaves no open row, stamps ended_at = S on every row
\* that was open, leaves the closed rows as they were, and every total then
\* counts S - started_at for a recovered row.
C5_StartupRecovery ==
    [][setup =>
          /\ OpenIds(store') = {}
          /\ DOMAIN store' = DOMAIN store
          /\ \A i \in DOMAIN store :
                IF i \in OpenIds(store)
                THEN /\ fromisoformat(store'[i].ended_at) = now
                     /\ [store'[i] EXCEPT !.ended_at = NULL] = store[i]
                ELSE store'[i] = store[i]
          /\ \A key \in Keys, n \in TimestampInputs :
                total_duration(store', active_sessions', now', key[1], key[2], NoStatuses, n)
                    = SumSpans(store, RowsOf(store, key), now)]_vars

\* setup has recovered a row that had been open for some time, beside a row
\* that was already closed.
C5_Witness ==
    /\ Len(last) = 3 /\ last[1] = "setup"
    /\ \E i \in last[3] : fromisoformat(store[i].started_at) < last[2]
    /\ \E j \in DOMAIN store : j \notin last[3]

\* C6: a handle_presence_update call that follows a returned call with the
\* same key and after status (whatever its before status, so also the same
\* one) starts no store call and leaves the active map and the store unchanged.
C6_RedundantEventIsNoOp ==
    [][\A g \in Guilds, u \in Users, b \in StatusInputs, a \in StatusInputs :
          (/\ Repeats("handle", g, u, normalize_status(a))
           /\ handle_presence_update(g, u, b, a, NoDatetime, 1))
          => /\ tasks' = tasks
             /\ active_sessions' = active_sessions
             /\ store' = store]_vars

\* A call with the key and the tracked after status of the call before it has
\* returned, and the key's ActiveSession is still held.
C6_Witness ==
    /\ Len(last) = 5 /\ last[1] = "handle" /\ last[5]
    /\ is_tracked(last[4])
    /\ <<last[2], last[3]>> \in DOMAIN active_sessions

\* C7: after a consistent event stream with non-decreasing timestamps whose
\* last after status is untracked, the default get_total_duration is the time
\* spent in tracked statuses, whatever now is.
C7_StreamTotalIsTrackedTime ==
    (Quiescent /\ stream.prev # "<unset>" /\ ~is_tracked(stream.prev))
        => \A n \in TimestampInputs :
              get_total_duration(OneKey[1], OneKey[2], NoStatuses, n) = stream.tracked

\* The stream went through an online and an idle session before going
\* untracked, two ticks in all.
C7_Witness ==
    /\ Quiescent /\ stream.prev # "<unset>" /\ ~is_tracked(stream.prev)
    /\ stream.tracked = 2
    /\ \E i \in DOMAIN store, j \in DOMAIN store :
          store[i].status = "online" /\ store[j].status = "idle"

\* C8: when handle_presence_update has returned for an untracked after
\* status, the key has no ActiveSession and no open row.
C8_UntrackedAfterClosesKey ==
    (Len(last) = 5 /\ last[1] = "handle" /\ ~is_tracked(last[4]))
        => /\ <<last[2], last[3]>> \notin DOMAIN active_sessions
           /\ OpenRowsOf(store, <<last[2], last[3]>>) = {}

\* C9: every ActiveSession of the map names an open row of the store with the
\* key's guild_id and user_id and the session's status and started_at, also
\* while calls are suspended at their store calls.
C9_ActiveSessionNamesOpenRow ==
    \A key \in DOMAIN active_sessions :
        LET session == active_sessions[key]
        IN  /\ session.row_id \in DOMAIN store
            /\ store[session.row_id].ended_at = NULL
            /\ store[session.row_id].guild_id = key[1]
            /\ store[session.row_id].user_id = key[2]
            /\ store[session.row_id].status = session.status
            /\ fromisoformat(store[session.row_id].started_at) = session.started_at

\* A call is suspended after its insert statement has run, while the map
\* still holds another ActiveSession for the same key.
C9_Witness ==
    \E t \in tasks :
        /\ t.pc \in InsertPcs /\ t.done
        /\ KeyOf(t) \in DOMAIN active_sessions
        /\ active_sessions[KeyOf(t)].row_id # t.row_id

\* C10: every closed row has ended_at >= started_at, whatever timestamps the
\* caller supplies.
C10_EndedNotBeforeStarted ==
    \A i \in DOMAIN store :
        store[i].ended_at # NULL
            => fromisoformat(store[i].ended_at) >= fromisoformat(store[i].started_at)

\* The now arguments of the filtered queries: omitted, the earliest and the
\* latest time.
NowInputs == {NoDatetime, 0, MaxTime}

\* Filters that name a subset of the tracked statuses.
StatusFilters == {<<"online">>, <<"idle">>, <<"dnd">>, <<"dnd", "idle">>}

\* The rows and the map without the sessions whose status is outside filter.
RowsWithin(rows, filter) == SelectSeq(rows, LAMBDA row : row.status \in Range(filter))
ActiveWithin(m, filter) ==
    [k \in {j \in DOMAIN m : m[j].status \in Range(filter)} |-> m[k]]

\* The keys that have a row or an ActiveSession (the totals of the others are
\* zero under every filter).
KeysSeen == {key \in Keys : RowsOf(store, key) # {} \/ key \in DOMAIN active_sessions}

\* C11: get_total_duration filtered to a subset F of the tracked statuses
\* returns what the same query returns on the state with every row and
\* ActiveSession of a status outside F removed.
C11_FilterCountsOnlyItsStatuses ==
    \A key \in KeysSeen, filter \in StatusFilters, n \in NowInputs :
        get_total_duration(key[1], key[2], filter, n)
            = total_duration(RowsWithin(store, filter), ActiveWithin(active_sessions, filter),
                             now, key[1], key[2], filter, n)

\* The key has a closed online row of some length and an idle ActiveSession
\* that has lasted some time: the online total leaves the idle time out.
C11_Witness ==
    /\ OneKey \in DOMAIN active_sessions
    /\ active_sessions[OneKey].status = "idle"
    /\ active_sessions[OneKey].started_at < now
    /\ get_total_duration(OneKey[1], OneKey[2], <<"online">>, NoDatetime) > 0
    /\ get_total_duration(OneKey[1], OneKey[2], <<"online">>, NoDatetime)
          < get_total_duration(OneKey[1], OneKey[2], NoStatuses, NoDatetime)

\* C12: bootstrap_member starts no store call and leaves store and map as
\* they are when the normalized status is untracked or the key already has an
\* ActiveSession (of any status); otherwise its one store call appends one
\* open row of the key and the status, and on return the map has gained the
\* key's ActiveSession, which names that row and has that status.
C12_BootstrapOpensOnlyForNewTrackedKey ==
    [][/\ \A g \in Guilds, u \in Users, s \in StatusInputs :
             bootstrap_member(g, u, s, 1) =>
                 /\ store' = store
                 /\ active_sessions' = active_sessions
                 /\ IF \/ normalize_status(s) \notin {"online", "idle", "dnd"}
                       \/ <<g, u>> \in DOMAIN active_sessions
                    THEN tasks' = tasks
                    ELSE /\ Cardinality(tasks' \ tasks) = 1
                         /\ tasks \subseteq tasks'
                         /\ \A t \in tasks' \ tasks :
                               /\ t.op = "bootstrap" /\ t.pc = "insert_54" /\ ~t.done
                               /\ KeyOf(t) = <<g, u>>
                               /\ t.after = normalize_status(s)
       /\ \A t \in tasks :
             (t.op = "bootstrap" /\ insert_session_thread(t)) =>
                 /\ Len(store') = Len(store) + 1
                 /\ \A i \in DOMAIN store : store'[i] = store[i]
                 /\ store'[Len(store')].guild_id = t.guild_id
                 /\ store'[Len(store')].user_id = t.user_id
                 /\ store'[Len(store')].status = t.after
                 /\ store'[Len(store')].ended_at = NULL
                 /\ active_sessions' = active_sessions
       /\ \A t \in tasks :
             (t.op = "bootstrap" /\ resume_after_insert(t)) =>
                 /\ store' = store
                 /\ tasks' = {}
                 /\ KeyOf(t) \notin DOMAIN active_sessions
                 /\ DOMAIN active_sessions' = DOMAIN active_sessions \cup {KeyOf(t)}
                 /\ \A k \in DOMAIN active_sessions : active_sessions'[k] = active_sessions[k]
                 /\ active_sessions'[KeyOf(t)].status = t.after
                 /\ active_sessions'[KeyOf(t)].row_id = Len(store)
                 /\ Len(store) \in OpenRowsOf(store, KeyOf(t))]_vars

\* bootstrap_member has returned for a tracked status while the key held an
\* ActiveSession of another status, which is still the one held.
C12_Witness ==
    /\ Len(last) = 5 /\ last[1] = "bootstrap"
    /\ is_tracked(last[4])
    /\ <<last[2], last[3]>> \in DOMAIN active_sessions
    /\ active_sessions[<<last[2], last[3]>>].status # last[4]

\* Raw after values outside the tracked set: an unknown string and an absent
\* value.
UntrackedInputs == {"streaming", None}

\* C13: handle_presence_update accepts an untracked after status (the call
\* can always be made), runs no insert for it, and from a state without an
\* ActiveSession for the key it starts no store call and leaves the active map
\* (and the store) unchanged.
C13_UntrackedAfterOpensNothing ==
    /\ [](Quiescent =>
            \A g \in Guilds, u \in Users, b \in StatusInputs, a \in UntrackedInputs :
                ENABLED (handle_presence_update(g, u, b, a, NoDatetime, 1) /\ UNCHANGED stream))
    /\ [][/\ \A g \in Guilds, u \in Users, b \in StatusInputs, a \in UntrackedInputs :
                handle_presence_update(g, u, b, a, NoDatetime, 1) =>
                    /\ store' = store
                    /\ \A t \in tasks' \ tasks : t.pc \in CompletePcs
                    /\ <<g, u>> \notin DOMAIN active_sessions
                          => (active_sessions' = active_sessions /\ tasks' = tasks)
          /\ \A t \in tasks :
                t.after \in {"streaming", "offline"} =>
                    /\ ~insert_session_thread(t)
                    /\ resume_after_close(t) =>
                          (tasks' = tasks \ {t} /\ active_sessions' = active_sessions)]_vars

\* A call with after status streaming has returned for a key that had and has
\* no ActiveSession, as in test_ignore_untracked_status.
C13_Witness ==
    /\ Len(last) = 5 /\ last[1] = "handle" /\ last[4] = "streaming"
    /\ <<last[2], last[3]>> \notin DOMAIN active_sessions
    /\ store = <<>>

\* Filters that are empty or name no tracked status, and filters that mix
\* tracked and untracked values, each with its tracked values.
FiltersWithoutTracked == {<<>>, <<"streaming">>, <<"streaming", "offline">>}
MixedFilters ==
    {<< <<"streaming", "online">>, <<"online">> >>,
     << <<"IDLE", "streaming">>, <<"idle">> >>}

\* C14: get_total_duration with a filter that is empty or names no tracked
\* status returns what the query with the full tracked set returns, and with
\* a filter that mixes tracked and untracked values what the query with the
\* tracked values alone returns.
C14_InvalidFilterFallsBack ==
    \A key \in KeysSeen, n \in NowInputs :
        LET full == get_total_duration(key[1], key[2], TRACKED_STATUSES, n)
        IN  /\ \A filter \in FiltersWithoutTracked :
                  get_total_duration(key[1], key[2], filter, n) = full
            /\ \A pair \in MixedFilters :
                  get_total_duration(key[1], key[2], pair[1], n)
                      = get_total_duration(key[1], key[2], pair[2], n)

\* The key has idle and online time, so that the empty filter's total (the
\* full one) exceeds the total of a mixed filter that names idle.
C14_Witness ==
    /\ get_total_duration(OneKey[1], OneKey[2], <<"IDLE", "streaming">>, NoDatetime) > 0
    /\ get_total_duration(OneKey[1], OneKey[2], <<>>, NoDatetime)
          > get_total_duration(OneKey[1], OneKey[2], <<"IDLE", "streaming">>, NoDatetime)
    /\ \E i \in DOMAIN store : store[i].status = "idle" /\ store[i].ended_at # NULL

\* The text of a count with its unit letter.
Component(n, unit) == ToString(n) \o unit

\* C15 as claimed: format_timedelta renders hours, minutes and seconds in
\* that order joined by single spaces, omits only the zero-valued leading
\* components (a zero component below a shown one is rendered) and renders
\* "0s" when all are zero.
C15_OnlyLeadingZerosOmitted ==
    (Len(last) = 3 /\ last[1] = "format_timedelta") =>
        LET h == last[2] \div 3600
            m == (last[2] % 3600) \div 60
            sec == last[2] % 60
        IN  last[3] = IF h > 0
                      THEN Component(h, "h") \o " " \o Component(m, "m")
                               \o " " \o Component(sec, "s")
                      ELSE IF m > 0
                           THEN Component(m, "m") \o " " \o Component(sec, "s")
                           ELSE Component(sec, "s")

\* C15 amended: format_timedelta renders the nonzero hour, minute and second
\* components in that order joined by single spaces, omits every zero-valued
\* component (also one below a shown component) and renders "0s" when all are
\* zero; 2h5m9s gives "2h 5m 9s", 90s gives "1m 30s", 0s gives "0s".
C15_EveryZeroComponentOmitted ==
    (Len(last) = 3 /\ last[1] = "format_timedelta") =>
        LET h == last[2] \div 3600
            m == (last[2] % 3600) \div 60
            sec == last[2] % 60
            H == Component(h, "h")
            M == Component(m, "m")
            S == Component(sec, "s")
        IN  /\ last[3] = CASE h > 0 /\ m > 0 /\ sec > 0 -> H \o " " \o M \o " " \o S
                           [] h > 0 /\ m > 0 /\ sec = 0 -> H \o " " \o M
                           [] h > 0 /\ m = 0 /\ sec > 0 -> H \o " " \o S
                           [] h > 0 /\ m = 0 /\ sec = 0 -> H
                           [] h = 0 /\ m > 0 /\ sec > 0 -> M \o " " \o S
                           [] h = 0 /\ m > 0 /\ sec = 0 -> M
                           [] h = 0 /\ m = 0 -> S
            /\ last[2] = 7509 => last[3] = "2h 5m 9s"
            /\ last[2] = 90 => last[3] = "1m 30s"
            /\ last[2] = 0 => last[3] = "0s"

\* One hour and nine seconds has been formatted: the zero minutes below the
\* hour are left out.
C15_Witness == last = <<"format_timedelta", 3609, "1h 9s">>

\* C16: when handle_presence_update returns for a tracked after status, the
\* map holds an ActiveSession for the key with that status, whatever the
\* before status and the map were; a call that finds the key's ActiveSession
\* with the after status already returns at once and keeps it as it is.
C16_TrackedAfterIsActive ==
    [][/\ (Len(last') = 5 /\ last'[1] = "handle" /\ last'[4] \in {"online", "idle", "dnd"}) =>
             /\ <<last'[2], last'[3]>> \in DOMAIN active_sessions'
             /\ active_sessions'[<<last'[2], last'[3]>>].status = last'[4]
       /\ \A g \in Guilds, u \in Users, b \in StatusInputs, a \in StatusInputs :
             (/\ <<g, u>> \in DOMAIN active_sessions
              /\ active_sessions[<<g, u>>].status = normalize_status(a)
              /\ handle_presence_update(g, u, b, a, NoDatetime, 1))
             => /\ active_sessions'[<<g, u>>].row_id = active_sessions[<<g, u>>].row_id
                /\ active_sessions'[<<g, u>>].started_at = active_sessions[<<g, u>>].started_at
                /\ active_sessions' = active_sessions
                /\ tasks' = tasks
                /\ Len(last') = 5]_vars

\* A call has returned for a tracked after status that replaced an
\* ActiveSession of another status without a tracked before status: the
\* replaced session's row is still open beside the new one.
C16_Witness ==
    /\ Len(last) = 5 /\ last[1] = "handle" /\ is_tracked(last[4]) /\ ~last[5]
    /\ <<last[2], last[3]>> \in DOMAIN active_sessions
    /\ active_sessions[<<last[2], last[3]>>].status = last[4]
    /\ \E i \in OpenRowsOf(store, <<last[2], last[3]>>) : store[i].status # last[4]

\* C17: an event between two different tracked statuses, for a key whose
\* ActiveSession has the before status, first suspends at the close of the
\* old row with nothing inserted; the close stamps the event timestamp on the
\* old row before the insert is issued; the insert that follows finds the old
\* row closed at the event timestamp and appends the new row started at that
\* timestamp; and the ActiveSession recorded on return starts at it too.
C17_CloseThenOpenAtEventTimestamp ==
    [][/\ \A b \in StatusInputs, a \in StatusInputs, ts \in TimestampInputs :
             (/\ is_tracked(normalize_status(b)) /\ is_tracked(normalize_status(a))
              /\ normalize_status(b) # normalize_status(a)
              /\ OneKey \in DOMAIN active_sessions
              /\ active_sessions[OneKey].status = normalize_status(b)
              /\ stream_event(b, a, ts))
             => /\ store' = store
                /\ Cardinality(tasks') = 1
                /\ \A t \in tasks' :
                      /\ t.pc = "complete_82" /\ ~t.done
                      /\ t.row_id = active_sessions[OneKey].row_id
                      /\ t.timestamp = IF ts = NoDatetime THEN now ELSE ts
                      /\ t.after = normalize_status(a)
       /\ \A t \in tasks :
             (t.pc = "complete_82" /\ is_tracked(t.after) /\ complete_session_thread(t))
             => /\ Len(store') = Len(store)
                /\ fromisoformat(store'[t.row_id].ended_at) = t.timestamp
                /\ \A t2 \in tasks' : t2.timestamp = t.timestamp /\ t2.row_id = t.row_id
       /\ \A t \in tasks :
             (t.pc = "complete_82" /\ is_tracked(t.after) /\ resume_after_close(t))
             => /\ store' = store
                /\ \A t2 \in tasks' :
                      /\ t2.pc = "insert_87" /\ ~t2.done
                      /\ t2.timestamp = t.timestamp /\ t2.row_id = t.row_id
       /\ \A t \in tasks :
             (t.pc = "insert_87" /\ t.row_id # 0 /\ insert_session_thread(t))
             => /\ store[t.row_id].ended_at # NULL
                /\ fromisoformat(store[t.row_id].ended_at) = t.timestamp
                /\ store'[t.row_id] = store[t.row_id]
                /\ Len(store') = Len(store) + 1
                /\ store'[Len(store')].ended_at = NULL
                /\ store'[Len(store')].status = t.after
                /\ fromisoformat(store'[Len(store')].started_at) = t.timestamp
                /\ fromisoformat(store'[Len(store')].started_at)
                      = fromisoformat(store'[t.row_id].ended_at)
                /\ \A t2 \in tasks' : t2.timestamp = t.timestamp /\ t2.row_id = Len(store')
       /\ \A t \in tasks :
             (t.pc = "insert_87" /\ resume_after_insert(t))
             => /\ active_sessions'[KeyOf(t)].started_at = t.timestamp
                /\ active_sessions'[KeyOf(t)].row_id = t.row_id
                /\ active_sessions'[KeyOf(t)].status = t.after
                /\ fromisoformat(store'[t.row_id].started_at) = t.timestamp]_vars

\* An online -> idle (or idle -> online) event with a caller's timestamp other
\* than the clock's has returned: the old row, of some length, ends where the
\* new row and the ActiveSession start.
C17_Witness ==
    /\ Quiescent
    /\ OneKey \in DOMAIN active_sessions
    /\ active_sessions[OneKey].started_at # now
    /\ fromisoformat(store[active_sessions[OneKey].row_id].started_at)
          = active_sessions[OneKey].started_at
    /\ \E i \in RowsOf(store, OneKey) :
          /\ store[i].ended_at # NULL
          /\ store[i].status # active_sessions[OneKey].status
          /\ fromisoformat(store[i].ended_at) = active_sessions[OneKey].started_at
          /\ fromisoformat(store[i].started_at) < fromisoformat(store[i].ended_at)

\* The row ids the tracker holds for a later or a running close: those of the
\* map and those of the closes in flight.
ClosesInFlight == {t \in tasks : t.pc \in CompletePcs}
RowsHeld ==
    {active_sessions[k].row_id : k \in DOMAIN active_sessions}
        \cup {t.row_id : t \in ClosesInFlight}

\* C18: in one process lifetime with calls interleaved at their store calls,
\* no two closes are ever in flight for one row and no close is in flight for
\* a row the map still names or that is already closed; a close is started
\* only for the row the map names for the key, which leaves the map in the
\* same step, and a row enters the map only once, as the new row of the
\* insert that just returned; the close statement runs on an open row and
\* changes that row alone; and an ended_at that is set never changes.
C18_RowClosedAtMostOnce ==
    /\ [](/\ \A t1 \in ClosesInFlight, t2 \in ClosesInFlight :
                t1 # t2 => t1.row_id # t2.row_id
          /\ \A t \in ClosesInFlight :
                /\ ~t.done => store[t.row_id].ended_at = NULL
                /\ \A k \in DOMAIN active_sessions : active_sessions[k].row_id # t.row_id)
    /\ [][/\ \A i \in DOMAIN store :
                /\ i \in DOMAIN store'
                /\ store[i].ended_at # NULL => store'[i].ended_at = store[i].ended_at
          /\ \A t \in tasks :
                complete_session_thread(t) =>
                    /\ store[t.row_id].ended_at = NULL
                    /\ \A i \in DOMAIN store : i # t.row_id => store'[i] = store[i]
          /\ \A t \in ClosesInFlight' \ ClosesInFlight :
                \/ \E t0 \in ClosesInFlight : t0.row_id = t.row_id /\ ~t0.done /\ t.done
                \/ /\ KeyOf(t) \in DOMAIN active_sessions
                   /\ active_sessions[KeyOf(t)].row_id = t.row_id
                   /\ KeyOf(t) \notin DOMAIN active_sessions'
          /\ \A t \in tasks :
                insert_session_thread(t) => Len(store') \notin RowsHeld
          /\ \A t \in tasks :
                resume_after_insert(t) =>
                    /\ t.row_id \notin {t2.row_id : t2 \in ClosesInFlight}
                    /\ \A k \in DOMAIN active_sessions' :
                          k # KeyOf(t) => active_sessions'[k] = active_sessions[k]]_vars

\* A row has been closed by the tracker and the close of another row is in
\* flight, while a further call of the key is suspended too.
C18_Witness ==
    /\ \E i \in DOMAIN store : store[i].ended_at # NULL
    /\ \E t \in ClosesInFlight : ~t.done /\ store[t.row_id].ended_at = NULL
    /\ Cardinality(tasks) >= 2

\* The step is one of a call for key: it starts, advances or ends a suspended
\* call of the key, or is a call of the key that returns without suspending.
StepOf(key) ==
    \/ {t \in tasks' : KeyOf(t) = key} # {t \in tasks : KeyOf(t) = key}
    \/ /\ last' # last
       /\ Len(last') = 5
       /\ <<last'[2], last'[3]>> = key

\* The rows and the map of one key alone.
RowsOfKey(rows, key) ==
    SelectSeq(rows, LAMBDA row : row.guild_id = key[1] /\ row.user_id = key[2])
ActiveOfKey(m, key) == [k \in DOMAIN m \cap {key} |-> m[k]]

\* C19: a step of a handle_presence_update or bootstrap_member call for one
\* key leaves every other key's ActiveSession, rows and suspended call as
\* they were, also when the calls of the two keys (one user id under two
\* guild ids) interleave at their store calls; and a key's total is the total
\* of its own rows and ActiveSession alone.
C19_KeysAreIndependent ==
    /\ [](\A key \in KeysSeen, n \in NowInputs :
             get_total_duration(key[1], key[2], NoStatuses, n)
                 = total_duration(RowsOfKey(store, key), ActiveOfKey(active_sessions, key),
                                  now, key[1], key[2], NoStatuses, n))
    /\ [][\A key \in Keys :
             StepOf(key) =>
                 \A other \in Keys \ {key} :
                     /\ (other \in DOMAIN active_sessions') = (other \in DOMAIN active_sessions)
                     /\ other \in DOMAIN active_sessions
                           => active_sessions'[other] = active_sessions[other]
                     /\ RowsOf(store', other) = RowsOf(store, other)
                     /\ \A i \in RowsOf(store, other) : store'[i] = store[i]
                     /\ {t \in tasks' : KeyOf(t) = other} = {t \in tasks : KeyOf(t) = other}]_vars

\* A call of the user in guild 2 is suspended at its store call while the
\* same user has an ActiveSession in guild 1; both keys have rows and their
\* totals differ.
C19_Witness ==
    /\ \E t \in tasks : t.guild_id = 2
    /\ <<1, 7>> \in DOMAIN active_sessions
    /\ RowsOf(store, <<2, 7>>) # {}
    /\ get_total_duration(1, 7, NoStatuses, NoDatetime) > 0
    /\ get_total_duration(2, 7, NoStatuses, NoDatetime) > 0
    /\ get_total_duration(1, 7, NoStatuses, NoDatetime)
          # get_total_duration(2, 7, NoStatuses, NoDatetime)

=============================================================================
